---- MODULE Spec2Model ----
(***************************************************************************)
(* IntfLabel.py: label the interfaces of a Nexus switch from its CDP       *)
(* neighbours, its port-channels and its fabric extenders.                 *)
(*                                                                         *)
(* main() runs make_cdp_dict, make_pc_dict and make_fex_dict in that       *)
(* order, merges their dictionaries in make_desc_dict and hands the result *)
(* to write_desc, which builds the command list, shows it, reads the       *)
(* operator's answer and, on "y"/"yes", pushes the commands with cli().    *)
(*                                                                         *)
(* Python values are encoded as tagged tuples so that a string, None and a *)
(* (nested) tuple can sit in the same dictionary:                          *)
(*     'abc'   is  <<"str", "abc">>                                        *)
(*     None    is  <<"none">>                                              *)
(*     (a, b)  is  <<"tuple", a, b>>                                       *)
(* Dictionaries are functions whose DOMAIN is the set of keys.             *)
(***************************************************************************)
EXTENDS Integers, Sequences, FiniteSets, TLC

VARIABLES
    pc,            \* position of main(): which call runs next
    cdp_dict,      \* value returned by make_cdp_dict()
    pc_dict,       \* value returned by make_pc_dict()
    fex_dict,      \* value returned by make_fex_dict()
    desc_dict,     \* value returned by make_desc_dict(): write_desc's int_dict
    pc_labelled,   \* port-channels for which line 152 ran (history)
    command_list,  \* write_desc's command_list
    response,      \* write_desc's response (raw_input)
    executed,      \* the strings handed to cli() by line 179, in order
    stdout,        \* the lines printed by write_desc
    failed         \* the command whose retrieval raised, "" if none

vars == <<pc, cdp_dict, pc_dict, fex_dict, desc_dict, pc_labelled,
          command_list, response, executed, stdout, failed>>

(***************************************************************************)
(* Bounds and input universes                                              *)
(***************************************************************************)
\* rows (ROW_...) in the XML reply of one show command
MaxRows == 2

E1  == "Ethernet1/1"
T2  == "TenGigabitEthernet1/2"
Po1 == "port-channel1"
Po2 == "port-channel2"

\* ROW_cdp_neighbor_brief_info: <<intf_id, device_id, port_id>>
NbrRows ==
    { <<E1,  "SwitchA(SSI1)", "Ethernet2/1">>,
      <<E1,  "SwitchB.lab",   "TenGigabitEthernet3/1">>,
      <<T2,  "SwitchB.lab",   "TenGigabitEthernet3/1">>,
      <<Po1, "SwitchA(SSI1)", "Ethernet2/1">> }

\* ROW_channel: <<port-channel, <<port of each ROW_member>>>>
ChanRows == {Po1, Po2} \X { <<>>, <<E1, T2>>, <<Po1>> }

\* ROW_fex_info: <<chas_id, <<fbr_index of each ROW_fbr_state>>>>
FexRows ==
    { <<"101", <<E1, Po2>>>>,
      <<"102", <<E1>>>>,
      <<"102", <<>>>> }

\* replies of 'show version | i Nexus'
PlatformReplies == {"Nexus 7000", "Nexus 5548", "Nexus 9000"}
\* replies of 'show feature-set | i fex' / 'show feature | i fex'
FeatureReplies == {"fex enabled", "fex disabled"}

\* what the operator may type at the prompt
Responses == {"y", "Y", "yes", "YES", "Yes", "", "n", "no", "yep"}

SeqsUpTo(S, n) == UNION { [1..k -> S] : k \in 0..n }

Range(f) == { f[i] : i \in DOMAIN f }

(***************************************************************************)
(* Python values                                                           *)
(***************************************************************************)
PyStr(s) == <<"str", s>>
PyNone == <<"none">>
PyTuple(a, b) == <<"tuple", a, b>>

IsStr(v) == v[1] = "str"
IsNone(v) == v[1] = "none"

EmptyDict == [k \in {} |-> PyNone]

\* d[k] = v
DictSet(d, k, v) == [x \in (DOMAIN d) \cup {k} |-> IF x = k THEN v ELSE d[x]]

(***************************************************************************)
(* Python string operations                                                *)
(***************************************************************************)
\* the characters used, in ASCII order
Ascii == " '(),-./0123456789:;ABCDEFGHIJKLMNOPQRSTUVWXYZabcdefghijklmnopqrstuvwxyz"
UpperCase == "ABCDEFGHIJKLMNOPQRSTUVWXYZ"
LowerCase == "abcdefghijklmnopqrstuvwxyz"

IndexIn(alphabet, c) ==
    IF \E i \in 1..Len(alphabet) : SubSeq(alphabet, i, i) = c
    THEN CHOOSE i \in 1..Len(alphabet) : SubSeq(alphabet, i, i) = c
    ELSE 0

Ord(c) == IndexIn(Ascii, c)

\* sub in s
Contains(s, sub) ==
    \E i \in 1..(Len(s) - Len(sub) + 1) : SubSeq(s, i, i + Len(sub) - 1) = sub

\* s.replace(old, new)
RECURSIVE Replace(_, _, _)
Replace(s, old, new) ==
    IF Len(s) < Len(old) THEN s
    ELSE IF SubSeq(s, 1, Len(old)) = old
         THEN new \o Replace(SubSeq(s, Len(old) + 1, Len(s)), old, new)
         ELSE SubSeq(s, 1, 1) \o Replace(SubSeq(s, 2, Len(s)), old, new)

\* s.split(ch)[0]
RECURSIVE SplitFirst(_, _)
SplitFirst(s, ch) ==
    IF s = "" \/ SubSeq(s, 1, 1) = ch THEN ""
    ELSE SubSeq(s, 1, 1) \o SplitFirst(SubSeq(s, 2, Len(s)), ch)

\* s.lower()
RECURSIVE Lower(_)
Lower(s) ==
    IF s = "" THEN ""
    ELSE LET c == SubSeq(s, 1, 1)
             i == IndexIn(UpperCase, c)
         IN (IF i = 0 THEN c ELSE SubSeq(LowerCase, i, i))
            \o Lower(SubSeq(s, 2, Len(s)))

\* a < b on Python 2 byte strings
RECURSIVE StrLess(_, _)
StrLess(a, b) ==
    IF b = "" THEN FALSE
    ELSE IF a = "" THEN TRUE
    ELSE IF SubSeq(a, 1, 1) = SubSeq(b, 1, 1)
         THEN StrLess(SubSeq(a, 2, Len(a)), SubSeq(b, 2, Len(b)))
         ELSE Ord(SubSeq(a, 1, 1)) < Ord(SubSeq(b, 1, 1))

\* repr(v)
RECURSIVE PyRepr(_)
PyRepr(v) ==
    IF IsStr(v) THEN "'" \o v[2] \o "'"
    ELSE IF IsNone(v) THEN "None"
    ELSE "(" \o PyRepr(v[2]) \o ", " \o PyRepr(v[3]) \o ")"

\* "%s" % v
PyFormat(v) == IF IsStr(v) THEN v[2] ELSE PyRepr(v)

(***************************************************************************)
(* short_name                                                              *)
(***************************************************************************)
short_name(str) ==
    IF Contains(str, "TenGigabitEthernet") THEN Replace(str, "GigabitEthernet", "T")
    ELSE IF Contains(str, "GigabitEthernet") THEN Replace(str, "GigabitEthernet", "G")
    ELSE IF Contains(str, "FastEthernet") THEN Replace(str, "FastEthernet", "F")
    ELSE IF Contains(str, "Ethernet") THEN Replace(str, "Ethernet", "e")
    ELSE IF Contains(str, "Eth") THEN Replace(str, "Eth", "e")
    ELSE IF Contains(str, "port-channel") THEN Replace(str, "port-channel", "Po")
    ELSE str

(***************************************************************************)
(* get_element and the three collectors                                    *)
(***************************************************************************)
\* What get_element(command) can do: raise (cli() raised, the reply was not
\* XML, or it had no rows under the root), or return the parsed rows.
get_element(Rows) ==
    { [raised |-> TRUE, rows |-> <<>>] }
    \cup { [raised |-> FALSE, rows |-> r] : r \in SeqsUpTo(Rows, MaxRows) }

\* the loop of make_cdp_dict over the rows still to read
RECURSIVE CdpLoop(_, _)
CdpLoop(rows, dict) ==
    IF rows = <<>> THEN dict
    ELSE LET i == Head(rows)
             l_port == i[1]
             r_name == SplitFirst(SplitFirst(i[2], "("), ".")
             r_port == i[3]
         IN CdpLoop(Tail(rows),
                    DictSet(dict, l_port, PyTuple(PyStr(r_name), PyStr(r_port))))

\* the loop of make_pc_dict
RECURSIVE PcRowLoop(_, _)
PcRowLoop(rows, dict) ==
    IF rows = <<>> THEN dict
    ELSE LET pc_name == Head(rows)[1]
             members == Head(rows)[2]
             d1 == IF pc_name \notin DOMAIN dict
                   THEN DictSet(dict, pc_name, <<>>) ELSE dict
         IN PcRowLoop(Tail(rows), DictSet(d1, pc_name, d1[pc_name] \o members))

\* the fex_enabled test of make_fex_dict
FexEnabled(platform, feature) ==
    IF Contains(platform, "Nexus 7") THEN Contains(feature, "enable")
    ELSE IF Contains(platform, "Nexus 5") THEN Contains(feature, "enable")
    ELSE FALSE

\* the loop of make_fex_dict
RECURSIVE FexRowLoop(_, _)
FexRowLoop(rows, dict) ==
    IF rows = <<>> THEN dict
    ELSE LET fex_id == Head(rows)[1]
             intfs == Head(rows)[2]
             d1 == IF fex_id \notin DOMAIN dict
                   THEN DictSet(dict, fex_id, <<>>) ELSE dict
         IN FexRowLoop(Tail(rows), DictSet(d1, fex_id, d1[fex_id] \o intfs))

(***************************************************************************)
(* make_desc_dict                                                          *)
(***************************************************************************)
\* the orders in which iteritems() may visit the keys of a dictionary
Orders(dict) ==
    { o \in [1..Cardinality(DOMAIN dict) -> DOMAIN dict] :
        \A i, j \in DOMAIN o : i # j => o[i] # o[j] }

\* line 151
PcTest(merge, plist) == Len(plist) > 0 /\ plist[1] \in DOMAIN merge

\* PcEntry with a channel labelled by its first member's name when that
\* member has no entry
PcEntryAlways(merge, chan, plist) ==
    IF Len(plist) > 0
    THEN DictSet(merge, chan,
                 IF plist[1] \in DOMAIN merge
                 THEN PyTuple(merge[plist[1]], PyNone)
                 ELSE PyTuple(PyStr(plist[1]), PyNone))
    ELSE merge

\* PcEntry with line 152 assigning to the member's key instead of the channel's
PcEntryMember(merge, chan, plist) ==
    IF PcTest(merge, plist)
    THEN DictSet(merge, plist[1], PyTuple(merge[plist[1]], PyNone))
    ELSE merge

\* lines 151-152 for one port-channel
PcEntry(merge, chan, plist) ==
    IF PcTest(merge, plist)
    THEN DictSet(merge, chan, PyTuple(merge[plist[1]], PyNone))
    ELSE merge

\* lines 150-152: the result, and the port-channels line 152 was run for
RECURSIVE PcLoop(_, _, _, _)
PcLoop(merge, done, dict, order) ==
    IF order = <<>> THEN [merge |-> merge, labelled |-> done]
    ELSE LET chan == Head(order) IN
         PcLoop(PcEntry(merge, chan, dict[chan]),
                IF PcTest(merge, dict[chan]) THEN done \cup {chan} ELSE done,
                dict, Tail(order))

\* FexEntry that leaves a port alone when it already has an entry
RECURSIVE FexEntryKeep(_, _, _)
FexEntryKeep(merge, num, portlist) ==
    IF portlist = <<>> THEN merge
    ELSE FexEntryKeep(IF Head(portlist) \in DOMAIN merge THEN merge
                      ELSE DictSet(merge, Head(portlist),
                                   PyTuple(PyStr("FEX" \o num), PyNone)),
                      num, Tail(portlist))

\* lines 154-155 for one FEX
RECURSIVE FexEntry(_, _, _)
FexEntry(merge, num, portlist) ==
    IF portlist = <<>> THEN merge
    ELSE FexEntry(DictSet(merge, Head(portlist), PyTuple(PyStr("FEX" \o num), PyNone)),
                  num, Tail(portlist))

\* lines 153-155
RECURSIVE FexLoop(_, _, _)
FexLoop(merge, dict, order) ==
    IF order = <<>> THEN merge
    ELSE FexLoop(FexEntry(merge, Head(order), dict[Head(order)]), dict, Tail(order))

make_desc_dict(cdp, pcs, fexes, pc_order, fex_order) ==
    FexLoop(PcLoop(cdp, {}, pcs, pc_order).merge, fexes, fex_order)

(***************************************************************************)
(* write_desc                                                              *)
(***************************************************************************)
\* SortedKeys ordering the keys by their short names
RECURSIVE SortedByShortName(_)
SortedByShortName(S) ==
    IF S = {} THEN <<>>
    ELSE LET m == CHOOSE k \in S :
                    \A o \in S \ {k} : ~StrLess(short_name(o), short_name(k))
         IN <<m>> \o SortedByShortName(S \ {m})

\* sorted(): the keys are distinct, so the (key, value) pairs sort by key
RECURSIVE SortedKeys(_)
SortedKeys(S) ==
    IF S = {} THEN <<>>
    ELSE LET m == CHOOSE k \in S : \A o \in S \ {k} : StrLess(k, o)
         IN <<m>> \o SortedKeys(S \ {m})

\* lines 168-171
Render(intf, remote) ==
    IF remote[3] = PyNone
    THEN "int " \o short_name(intf) \o " ; description " \o PyFormat(remote[2])
    ELSE "int " \o short_name(intf) \o " ; description " \o PyFormat(remote[2])
         \o ":" \o short_name(remote[3][2])

\* lines 166-171
BuildCommands(int_dict) ==
    LET keys == SortedKeys(DOMAIN int_dict)
    IN [i \in 1..Len(keys) |-> Render(keys[i], int_dict[keys[i]])]

\* Confirmed taking everything but "n"/"no" for a yes
ConfirmedUnlessNo(resp) == Lower(resp) # "no" /\ Lower(resp) # "n"

\* line 177
Confirmed(resp) == Lower(resp) = "yes" \/ Lower(resp) = "y"

(***************************************************************************)
(* main                                                                    *)
(***************************************************************************)
Init ==
    /\ pc = "make_cdp_dict"
    /\ cdp_dict = EmptyDict
    /\ pc_dict = EmptyDict
    /\ fex_dict = EmptyDict
    /\ desc_dict = EmptyDict
    /\ pc_labelled = {}
    /\ command_list = <<>>
    /\ response = ""
    /\ executed = <<>>
    /\ stdout = <<>>
    /\ failed = ""

\* Abort with the exception caught and the run going on with what it has
AbortContinue(command) ==
    /\ pc' = (CASE pc = "make_cdp_dict" -> "make_pc_dict"
                [] pc = "make_pc_dict" -> "make_fex_dict"
                [] pc = "make_fex_dict" -> "make_desc_dict"
                [] OTHER -> pc)
    /\ failed' = command

\* an exception leaves main(): the traceback ends the run
Abort(command) ==
    /\ pc' = "aborted"
    /\ failed' = command

MakeCdpDict ==
    /\ pc = "make_cdp_dict"
    /\ \E reply \in get_element(NbrRows) :
         IF reply.raised
         THEN Abort("show cdp neighbors") /\ UNCHANGED cdp_dict
         ELSE /\ cdp_dict' = CdpLoop(reply.rows, EmptyDict)
              /\ pc' = "make_pc_dict"
              /\ UNCHANGED failed
    /\ UNCHANGED <<pc_dict, fex_dict, desc_dict, pc_labelled, command_list,
                   response, executed, stdout>>

MakePcDict ==
    /\ pc = "make_pc_dict"
    /\ \E reply \in get_element(ChanRows) :
         IF reply.raised
         THEN Abort("show port-channel summary") /\ UNCHANGED pc_dict
         ELSE /\ pc_dict' = PcRowLoop(reply.rows, EmptyDict)
              /\ pc' = "make_fex_dict"
              /\ UNCHANGED failed
    /\ UNCHANGED <<cdp_dict, fex_dict, desc_dict, pc_labelled, command_list,
                   response, executed, stdout>>

MakeFexDict ==
    /\ pc = "make_fex_dict"
    /\ \E platform \in PlatformReplies, feature \in FeatureReplies :
         IF FexEnabled(platform, feature)
         THEN \E reply \in get_element(FexRows) :
                IF reply.raised
                THEN Abort("show fex detail") /\ UNCHANGED fex_dict
                ELSE /\ fex_dict' = FexRowLoop(reply.rows, EmptyDict)
                     /\ pc' = "make_desc_dict"
                     /\ UNCHANGED failed
         ELSE /\ fex_dict' = EmptyDict
              /\ pc' = "make_desc_dict"
              /\ UNCHANGED failed
    /\ UNCHANGED <<cdp_dict, pc_dict, desc_dict, pc_labelled, command_list,
                   response, executed, stdout>>

MakeDescDict ==
    /\ pc = "make_desc_dict"
    /\ \E pc_order \in Orders(pc_dict), fex_order \in Orders(fex_dict) :
         /\ desc_dict' = make_desc_dict(cdp_dict, pc_dict, fex_dict, pc_order, fex_order)
         /\ pc_labelled' = PcLoop(cdp_dict, {}, pc_dict, pc_order).labelled
    /\ pc' = "write_desc"
    /\ UNCHANGED <<cdp_dict, pc_dict, fex_dict, command_list, response,
                   executed, stdout, failed>>

\* lines 166-175: build the list, show it, ask
WriteDescShow ==
    /\ pc = "write_desc"
    /\ command_list' = BuildCommands(desc_dict)
    /\ stdout' = <<"This will add the following commands to the configuration: ">>
                 \o [i \in 1..Len(command_list') |-> "conf ; " \o command_list'[i]]
                 \o <<"Continue? (y/n) ">>
    /\ pc' = "raw_input"
    /\ UNCHANGED <<cdp_dict, pc_dict, fex_dict, desc_dict, pc_labelled,
                   response, executed, failed>>

\* lines 176-177 and 181-182.  The dictionaries of the collectors are main()'s
\* temporaries; from here on only write_desc's own variables are kept.
WriteDescAnswer ==
    /\ pc = "raw_input"
    /\ \E r \in Responses :
         /\ response' = r
         /\ IF Confirmed(r)
            THEN pc' = "apply" /\ UNCHANGED stdout
            ELSE /\ pc' = "done"
                 /\ stdout' = Append(stdout, "Skipped writing to the configuration")
    /\ cdp_dict' = EmptyDict
    /\ pc_dict' = EmptyDict
    /\ fex_dict' = EmptyDict
    /\ pc_labelled' = {}
    /\ UNCHANGED <<desc_dict, command_list, executed, failed>>

\* lines 178-179, one turn of the loop: cli() returns, or raises and the
\* exception leaves write_desc and main
WriteDescCli ==
    /\ pc = "apply"
    /\ Len(executed) < Len(command_list)
    /\ LET line == "conf ; " \o command_list[Len(executed) + 1] IN
         /\ executed' = Append(executed, line)
         /\ \E raised \in BOOLEAN :
              IF raised THEN Abort(line) ELSE UNCHANGED <<pc, failed>>
    /\ UNCHANGED <<cdp_dict, pc_dict, fex_dict, desc_dict, pc_labelled,
                   command_list, response, stdout>>

\* line 180
WriteDescReminder ==
    /\ pc = "apply"
    /\ Len(executed) = Len(command_list)
    /\ stdout' = Append(stdout, "*** DON'T forget to save the configuration!")
    /\ pc' = "done"
    /\ UNCHANGED <<cdp_dict, pc_dict, fex_dict, desc_dict, pc_labelled,
                   command_list, response, executed, failed>>

Next ==
    \/ MakeCdpDict
    \/ MakePcDict
    \/ MakeFexDict
    \/ MakeDescDict
    \/ WriteDescShow
    \/ WriteDescAnswer
    \/ WriteDescCli
    \/ WriteDescReminder

Spec == Init /\ [][Next]_vars

(***************************************************************************)
(* Vocabulary of the properties                                            *)
(***************************************************************************)
\* make_desc_dict has returned and the collectors' dictionaries are still held
Merged == pc \in {"write_desc", "raw_input"}

\* write_desc has built and shown its command list
Shown == stdout # <<>>

\* the member ports of all FEX facts
FexPorts == UNION { Range(fex_dict[num]) : num \in DOMAIN fex_dict }

\* the answers that say yes
Affirmative == {"y", "Y", "yes", "Yes", "YES"}

\* the fact sources a run cannot do without
RequiredSources == {"show cdp neighbors", "show port-channel summary", "show fex detail"}

\* the text after the first occurrence of marker in s
AfterMarker(s, marker) ==
    LET at == CHOOSE i \in 1..Len(s) :
                  /\ SubSeq(s, i, i + Len(marker) - 1) = marker
                  /\ \A j \in 1..(i - 1) : SubSeq(s, j, j + Len(marker) - 1) # marker
    IN SubSeq(s, at + Len(marker), Len(s))

\* the description text of the command built for interface intf
DescriptionOf(intf) ==
    LET n == Cardinality({ k \in DOMAIN desc_dict : StrLess(k, intf) }) + 1
    IN AfterMarker(command_list[n], " ; description ")

(***************************************************************************)
(* C1: no configuration command is handed to cli() unless the operator's   *)
(* answer is affirmative; after any other answer, the empty one included,  *)
(* no command at all has been executed.                                    *)
(***************************************************************************)
C1_NoCommandWithoutYes ==
    /\ (executed # <<>> \/ pc = "apply") => response \in Affirmative
    /\ (pc = "done" /\ response \notin Affirmative) => executed = <<>>

C1_Witness ==
    /\ pc = "done"
    /\ response = ""
    /\ Len(command_list) >= 2
    /\ executed = <<>>

(***************************************************************************)
(* C2: a port that is a key of the neighbor table and a member port of a   *)
(* FEX fact is described as ("FEX" + fexId, None) for a FEX it belongs to, *)
(* whatever the port-channel table holds.                                  *)
(***************************************************************************)
C2_FexPrecedence ==
    Merged =>
      \A port \in (DOMAIN cdp_dict) \cap FexPorts :
         /\ port \in DOMAIN desc_dict
         /\ \E num \in DOMAIN fex_dict :
              /\ port \in Range(fex_dict[num])
              /\ desc_dict[port] = PyTuple(PyStr("FEX" \o num), PyNone)

C2_Witness ==
    /\ Merged
    /\ \E port \in (DOMAIN cdp_dict) \cap FexPorts :
         \E chan \in DOMAIN pc_dict :
            /\ Len(pc_dict[chan]) > 0
            /\ pc_dict[chan][1] = port
            /\ chan \in pc_labelled

(***************************************************************************)
(* C3 as stated: a port-channel of the port-channel table has an entry in  *)
(* the map if and only if it has a member and its first member has a       *)
(* neighbor fact.                                                          *)
(***************************************************************************)
C3_Original ==
    Merged =>
      \A chan \in DOMAIN pc_dict :
         chan \in DOMAIN desc_dict
           <=> (Len(pc_dict[chan]) > 0 /\ pc_dict[chan][1] \in DOMAIN cdp_dict)

(***************************************************************************)
(* C3 as amended: the same equivalence, for the port-channels that are     *)
(* neither a key of the neighbor table nor a member port of a FEX fact and *)
(* whose first member is not itself a key of the port-channel table.       *)
(***************************************************************************)
C3_Plain(chan) ==
    /\ chan \notin DOMAIN cdp_dict
    /\ chan \notin FexPorts
    /\ Len(pc_dict[chan]) > 0 => pc_dict[chan][1] \notin DOMAIN pc_dict

C3_Amended ==
    Merged =>
      \A chan \in DOMAIN pc_dict :
         C3_Plain(chan) =>
           (chan \in DOMAIN desc_dict
              <=> (Len(pc_dict[chan]) > 0 /\ pc_dict[chan][1] \in DOMAIN cdp_dict))

C3_Witness ==
    /\ Merged
    /\ \E c1, c2 \in DOMAIN pc_dict :
         /\ C3_Plain(c1) /\ C3_Plain(c2)
         /\ c1 \in DOMAIN desc_dict
         /\ c2 \notin DOMAIN desc_dict
    /\ fex_dict # EmptyDict

(***************************************************************************)
(* C4: a neighbor fact whose local interface is neither a port-channel     *)
(* that received a port-channel description nor a member port of a FEX     *)
(* fact keeps exactly its (remoteName, remotePort) value in the map.       *)
(***************************************************************************)
C4_NeighborKept ==
    Merged =>
      \A intf \in DOMAIN cdp_dict :
         (intf \notin pc_labelled /\ intf \notin FexPorts) =>
            /\ intf \in DOMAIN desc_dict
            /\ desc_dict[intf] = cdp_dict[intf]
            /\ IsStr(desc_dict[intf][2]) /\ IsStr(desc_dict[intf][3])

C4_Witness ==
    /\ Merged
    /\ pc_labelled # {}
    /\ fex_dict # EmptyDict
    /\ \E intf \in (DOMAIN cdp_dict) \cap (DOMAIN pc_dict) :
         intf \notin pc_labelled /\ intf \notin FexPorts

(***************************************************************************)
(* C5: the command for an interface whose name contains                    *)
(* "TenGigabitEthernet" names it by the Ten-prefixed short form, in which  *)
(* the whole of "TenGigabitEthernet" is replaced by "T".                   *)
(***************************************************************************)
C5_TenPrefix ==
    Shown =>
      \A intf \in DOMAIN desc_dict :
         Contains(intf, "TenGigabitEthernet") =>
            /\ short_name(intf) = Replace(intf, "TenGigabitEthernet", "T")
            /\ \E i \in DOMAIN command_list :
                 LET want == "int " \o Replace(intf, "TenGigabitEthernet", "T") \o " ; "
                 IN SubSeq(command_list[i], 1, Len(want)) = want

(***************************************************************************)
(* C6: the command list holds exactly one command per entry of the map,    *)
(* none for any other interface, in ascending lexicographic order of the   *)
(* unshortened interface key.                                              *)
(***************************************************************************)
C6_OnePerEntrySorted ==
    Shown =>
      LET n == Len(command_list) IN
        /\ n = Cardinality(DOMAIN desc_dict)
        /\ \E keys \in [1..n -> DOMAIN desc_dict] :
             /\ \A i, j \in 1..n : i < j => StrLess(keys[i], keys[j])
             /\ \A i \in 1..n : command_list[i] = Render(keys[i], desc_dict[keys[i]])

C6_Witness ==
    /\ Shown
    /\ {E1, T2, Po2} \subseteq DOMAIN desc_dict
    /\ Len(command_list) >= 3

(***************************************************************************)
(* C7: for a port-channel whose first member has a neighbor fact and that  *)
(* no FEX fact overrides, the description text of the channel's command is *)
(* the description text of its first member's command.                     *)
(***************************************************************************)
C7_ChannelTextIsMemberText ==
    pc = "raw_input" =>
      \A chan \in DOMAIN pc_dict :
         LET plist == pc_dict[chan] IN
           ( /\ Len(plist) > 0
             /\ plist[1] \in DOMAIN cdp_dict
             /\ plist[1] \notin DOMAIN pc_dict
             /\ chan \notin DOMAIN cdp_dict
             /\ {chan, plist[1]} \cap FexPorts = {} )
           => DescriptionOf(chan) = DescriptionOf(plist[1])

(***************************************************************************)
(* C8: once the operator has said yes, a run that has ended has handed     *)
(* every command of the list to cli(), in the list's order, also when an   *)
(* earlier command failed.                                                 *)
(***************************************************************************)
C8_AllCommandsExecuted ==
    (pc \in {"done", "aborted"} /\ Shown /\ response \in Affirmative) =>
       executed = [i \in 1..Len(command_list) |-> "conf ; " \o command_list[i]]

(***************************************************************************)
(* C9: when the retrieval of a required fact source fails the run is       *)
(* aborted before write_desc: no map, no command list, nothing shown, no   *)
(* question asked and no command executed.                                 *)
(***************************************************************************)
C9_SourceFailureAborts ==
    failed \in RequiredSources =>
       /\ pc = "aborted"
       /\ desc_dict = EmptyDict
       /\ command_list = <<>>
       /\ stdout = <<>>
       /\ response = ""
       /\ executed = <<>>

C9_Witness ==
    /\ failed = "show fex detail"
    /\ pc = "aborted"
    /\ cdp_dict # EmptyDict
    /\ pc_dict # EmptyDict

(***************************************************************************)
(* C10: the map make_desc_dict returns is the same for every order in      *)
(* which the port-channel entries and the FEX entries are visited.         *)
(***************************************************************************)
C10_OrderIndependent ==
    Merged =>
      \A pc_order \in Orders(pc_dict), fex_order \in Orders(fex_dict) :
         make_desc_dict(cdp_dict, pc_dict, fex_dict, pc_order, fex_order) = desc_dict

====
